---- MODULE Spec2Model ----
(***************************************************************************)
(* Model of homework.py: the fitness-tracker calculator.                   *)
(*                                                                         *)
(* Numbers.  Python ints and floats are modelled as exact rationals        *)
(* [n |-> numerator, d |-> denominator], d > 0, in lowest terms.  The      *)
(* last-bit rounding of IEEE doubles is not modelled: every statement      *)
(* about a number is a statement about the exact value of the formula.     *)
(*                                                                         *)
(* Text.  A Python str is modelled as the sequence of its Unicode code     *)
(* points, so that formatting really builds the characters of a line.      *)
(*                                                                         *)
(* Exceptions.  A call returns a record whose field exc is "none" or the   *)
(* name of the exception it raised.                                        *)
(***************************************************************************)
EXTENDS Integers, Sequences, FiniteSets

VARIABLES packages, idx, pc, training, infos, out, exc

vars == <<packages, idx, pc, training, infos, out, exc>>

---------------------------------------------------------------------------
(* Bounds of the model                                                     *)

\* The longest list of (workout_type, data) pairs the driver is run on.
MaxPackages == 2

---------------------------------------------------------------------------
(* Numbers                                                                 *)

Abs(x) == IF x < 0 THEN -x ELSE x

RECURSIVE Gcd(_, _)
Gcd(a, b) == IF b = 0 THEN a ELSE Gcd(b, a % b)

\* The number n/d (d # 0) in lowest terms with a positive denominator.
Num(n, d) ==
    LET s == IF d < 0 THEN -1 ELSE 1
        g == Gcd(Abs(n), Abs(d))
    IN  [n |-> (s * n) \div g, d |-> (s * d) \div g]

FromInt(k) == Num(k, 1)

\* a + b, a - b, a * b
Add(a, b) == Num(a.n * b.d + b.n * a.d, a.d * b.d)
Sub(a, b) == Num(a.n * b.d - b.n * a.d, a.d * b.d)
Mul(a, b) == Num(a.n * b.n, a.d * b.d)

\* a / b for b # 0 (Python raises ZeroDivisionError for b = 0: the callers
\* test the divisor before they divide).
TrueDiv(a, b) == Num(a.n * b.d, a.d * b.n)

\* Mutant of FloorDiv: / written for //.
FloorDiv_TrueDivision(a, b) == Num(a.n * b.d, a.d * b.n)

\* a // b for b # 0: the quotient rounded toward minus infinity.
FloorDiv(a, b) ==
    LET q == Num(a.n * b.d, a.d * b.n)
    IN  FromInt(q.n \div q.d)

\* a ** 2
Pow2(a) == Mul(a, a)

IsZero(a) == a.n = 0

\* What a call hands back: a value, or an exception raised.
Value(v) == [exc |-> "none", val |-> v]
Raise(e) == [exc |-> e, val |-> FromInt(0)]

---------------------------------------------------------------------------
(* Text                                                                    *)

\* 'SWM', 'RUN', 'WLK': the keys of the trainings dict
SWM == <<83, 87, 77>>
RUN == <<82, 85, 78>>
WLK == <<87, 76, 75>>

\* type(self).__name__ of each class
ClassName(cls) ==
    CASE cls = "Swimming" -> <<83, 119, 105, 109, 109, 105, 110, 103>>
      [] cls = "Running" -> <<82, 117, 110, 110, 105, 110, 103>>
      [] cls = "SportsWalking" ->
            <<83, 112, 111, 114, 116, 115, 87, 97, 108, 107, 105, 110, 103>>
      [] cls = "Training" -> <<84, 114, 97, 105, 110, 105, 110, 103>>

\* The literal pieces of the f-string of get_message:
\* 'Тип тренировки: '
MSG_TYPE ==
    <<1058, 1080, 1087, 32, 1090, 1088, 1077, 1085, 1080, 1088, 1086, 1074,
      1082, 1080, 58, 32>>
\* '; Длительность: '
MSG_DURATION ==
    <<59, 32, 1044, 1083, 1080, 1090, 1077, 1083, 1100, 1085, 1086, 1089,
      1090, 1100, 58, 32>>
\* ' ч.; Дистанция: '
MSG_DISTANCE ==
    <<32, 1095, 46, 59, 32, 1044, 1080, 1089, 1090, 1072, 1085, 1094, 1080,
      1103, 58, 32>>
\* ' км; Ср. скорость: '
MSG_SPEED ==
    <<32, 1082, 1084, 59, 32, 1057, 1088, 46, 32, 1089, 1082, 1086, 1088,
      1086, 1089, 1090, 1100, 58, 32>>
\* ' км/ч; Потрачено ккал: '
MSG_CALORIES ==
    <<32, 1082, 1084, 47, 1095, 59, 32, 1055, 1086, 1090, 1088, 1072, 1095,
      1077, 1085, 1086, 32, 1082, 1082, 1072, 1083, 58, 32>>
\* '.'
MSG_END == <<46>>

\* The literal pieces of the f-string printed by read_package:
\* 'KeyError: Тип тренировки '
ERR_HEAD ==
    <<75, 101, 121, 69, 114, 114, 111, 114, 58, 32, 1058, 1080, 1087, 32,
      1090, 1088, 1077, 1085, 1080, 1088, 1086, 1074, 1082, 1080, 32>>
\* ' не может быть обработан.'
ERR_TAIL ==
    <<32, 1085, 1077, 32, 1084, 1086, 1078, 1077, 1090, 32, 1073, 1099, 1090,
      1100, 32, 1086, 1073, 1088, 1072, 1073, 1086, 1090, 1072, 1085, 46>>

\* The decimal digits of k >= 0.
RECURSIVE Digits(_)
Digits(k) ==
    IF k < 10 THEN <<48 + k>> ELSE Digits(k \div 10) \o <<48 + (k % 10)>>

\* Mutant of Format3f: '.2f' written for '.3f'.
Format3f_TwoPlaces(x) ==
    LET whole == Abs(x.n) \div x.d
        a == (Abs(x.n) % x.d) * 100
        f0 == a \div x.d
        r == a % x.d
        up == 2 * r > x.d \/ (2 * r = x.d /\ f0 % 2 = 1)
        carry == up /\ f0 = 99
        frac == IF carry THEN 0 ELSE IF up THEN f0 + 1 ELSE f0
    IN  (IF x.n < 0 THEN <<45>> ELSE <<>>)
        \o Digits(IF carry THEN whole + 1 ELSE whole) \o <<46>>
        \o <<48 + (frac \div 10), 48 + (frac % 10)>>

\* format(x, '.3f'): x rounded to thousandths, a tie to the even neighbour,
\* written as sign, integer part, '.', three digits.  The thousandths are
\* taken from the fractional part of |x|; rounding 999.5 thousandths and more
\* up carries into the integer part.
Format3f(x) ==
    LET whole == Abs(x.n) \div x.d
        a == (Abs(x.n) % x.d) * 1000
        f0 == a \div x.d
        r == a % x.d
        up == 2 * r > x.d \/ (2 * r = x.d /\ f0 % 2 = 1)
        carry == up /\ f0 = 999
        frac == IF carry THEN 0 ELSE IF up THEN f0 + 1 ELSE f0
    IN  (IF x.n < 0 THEN <<45>> ELSE <<>>)
        \o Digits(IF carry THEN whole + 1 ELSE whole) \o <<46>>
        \o <<48 + (frac \div 100), 48 + ((frac \div 10) % 10), 48 + (frac % 10)>>

---------------------------------------------------------------------------
(* class InfoMessage                                                       *)

InfoMessage(training_type, duration, distance, speed, calories) ==
    [training_type |-> training_type, duration |-> duration,
     distance |-> distance, speed |-> speed, calories |-> calories]

get_message(self) ==
    MSG_TYPE \o self.training_type
    \o MSG_DURATION \o Format3f(self.duration)
    \o MSG_DISTANCE \o Format3f(self.distance)
    \o MSG_SPEED \o Format3f(self.speed)
    \o MSG_CALORIES \o Format3f(self.calories)
    \o MSG_END

---------------------------------------------------------------------------
(* class Training and its subclasses                                       *)

M_IN_KM == 1000
HOURS_TO_MIN == 60
COEFF_CALORIE_RUN_1 == 18
COEFF_CALORIE_RUN_2 == 20
COEFF_CALORIE_WLK_1 == Num(35, 1000)
COEFF_CALORIE_WLK_2 == Num(29, 1000)
COEFF_CALORIE_SWM_1 == Num(11, 10)
COEFF_CALORIE_SWM_2 == 2

\* Mutant of LEN_STEP: Swimming without its own LEN_STEP.
LEN_STEP_NoOverride(cls) == Num(65, 100)

\* self.LEN_STEP: Swimming overrides the class attribute of Training.
LEN_STEP(cls) == IF cls = "Swimming" THEN Num(138, 100) ELSE Num(65, 100)

\* The value None.
None == [cls |-> "NoneType"]

\* Training.__init__ and the two __init__ that extend it.
Training_init(cls, action, duration, weight) ==
    [cls |-> cls, action |-> action, duration |-> duration, weight |-> weight]

SportsWalking_init(action, duration, weight, height) ==
    [cls |-> "SportsWalking", action |-> action, duration |-> duration,
     weight |-> weight, height |-> height]

Swimming_init(action, duration, weight, length_pool, count_pool) ==
    [cls |-> "Swimming", action |-> action, duration |-> duration,
     weight |-> weight, length_pool |-> length_pool,
     count_pool |-> count_pool]

get_distance(self) ==
    Value(TrueDiv(Mul(self.action, LEN_STEP(self.cls)), FromInt(M_IN_KM)))

Training_get_mean_speed(self) ==
    IF IsZero(self.duration)
    THEN Raise("ZeroDivisionError")
    ELSE Value(TrueDiv(get_distance(self).val, self.duration))

\* Mutant of Swimming_get_mean_speed: - written for the *.
Swimming_get_mean_speed_Minus(self) ==
    IF IsZero(self.duration)
    THEN Raise("ZeroDivisionError")
    ELSE Value(TrueDiv(TrueDiv(Sub(self.length_pool, self.count_pool),
                               FromInt(M_IN_KM)),
                       self.duration))

Swimming_get_mean_speed(self) ==
    IF IsZero(self.duration)
    THEN Raise("ZeroDivisionError")
    ELSE Value(TrueDiv(TrueDiv(Mul(self.length_pool, self.count_pool),
                               FromInt(M_IN_KM)),
                       self.duration))

\* Mutant of get_mean_speed: Swimming without its own get_mean_speed.
get_mean_speed_NoOverride(self) == Training_get_mean_speed(self)

\* self.get_mean_speed(): the method of the instance's class.
get_mean_speed(self) ==
    IF self.cls = "Swimming"
    THEN Swimming_get_mean_speed(self)
    ELSE Training_get_mean_speed(self)

\* Mutant of Running_get_spent_calories: + written for -.
Running_get_spent_calories_Plus(self) ==
    LET speed == get_mean_speed(self)
    IN  IF speed.exc # "none"
        THEN speed
        ELSE Value(Mul(Mul(TrueDiv(Mul(Add(Mul(FromInt(COEFF_CALORIE_RUN_1),
                                               speed.val),
                                           FromInt(COEFF_CALORIE_RUN_2)),
                                       self.weight),
                                   FromInt(M_IN_KM)),
                           self.duration),
                       FromInt(HOURS_TO_MIN)))

Running_get_spent_calories(self) ==
    LET speed == get_mean_speed(self)
    IN  IF speed.exc # "none"
        THEN speed
        ELSE Value(Mul(Mul(TrueDiv(Mul(Sub(Mul(FromInt(COEFF_CALORIE_RUN_1),
                                               speed.val),
                                           FromInt(COEFF_CALORIE_RUN_2)),
                                       self.weight),
                                   FromInt(M_IN_KM)),
                           self.duration),
                       FromInt(HOURS_TO_MIN)))

SportsWalking_get_spent_calories(self) ==
    LET speed == get_mean_speed(self)
    IN  IF speed.exc # "none"
        THEN speed
        ELSE IF IsZero(self.height)
        THEN Raise("ZeroDivisionError")
        ELSE Value(Mul(Mul(Add(Mul(COEFF_CALORIE_WLK_1, self.weight),
                               Mul(Mul(FloorDiv(Pow2(speed.val), self.height),
                                       COEFF_CALORIE_WLK_2),
                                   self.weight)),
                           self.duration),
                       FromInt(HOURS_TO_MIN)))

Swimming_get_spent_calories(self) ==
    LET speed == get_mean_speed(self)
    IN  IF speed.exc # "none"
        THEN speed
        ELSE Value(Mul(Mul(Add(speed.val, COEFF_CALORIE_SWM_1),
                           FromInt(COEFF_CALORIE_SWM_2)),
                       self.weight))

\* self.get_spent_calories(): the method of the instance's class; the one of
\* Training itself raises.
get_spent_calories(self) ==
    CASE self.cls = "Running" -> Running_get_spent_calories(self)
      [] self.cls = "SportsWalking" -> SportsWalking_get_spent_calories(self)
      [] self.cls = "Swimming" -> Swimming_get_spent_calories(self)
      [] OTHER -> Raise("NotImplementedError")

\* The keyword arguments are evaluated in the order written: the first call
\* that raises ends show_training_info.
show_training_info(self) ==
    LET distance == get_distance(self)
        speed == get_mean_speed(self)
        calories == get_spent_calories(self)
    IN  IF distance.exc # "none" THEN distance
        ELSE IF speed.exc # "none" THEN speed
        ELSE IF calories.exc # "none" THEN calories
        ELSE Value(InfoMessage(ClassName(self.cls), self.duration,
                               distance.val, speed.val, calories.val))

---------------------------------------------------------------------------
(* read_package and main                                                   *)

\* The trainings dict of read_package: workout code -> class.
trainings ==
    [k \in {SWM, RUN, WLK} |->
        IF k = SWM THEN "Swimming"
        ELSE IF k = RUN THEN "Running" ELSE "SportsWalking"]

\* The number of positional arguments each class's __init__ takes (self
\* apart): Running inherits Training.__init__.
Arity(cls) ==
    CASE cls = "Swimming" -> 5
      [] cls = "SportsWalking" -> 4
      [] OTHER -> 3

\* Mutant of Construct: duration and weight change places.
Construct_Swapped(cls, data) ==
    IF Len(data) # Arity(cls)
    THEN Raise("TypeError")
    ELSE Value(CASE cls = "Swimming" ->
                      Swimming_init(data[1], data[3], data[2], data[4], data[5])
                 [] cls = "SportsWalking" ->
                      SportsWalking_init(data[1], data[3], data[2], data[4])
                 [] OTHER ->
                      Training_init(cls, data[1], data[3], data[2]))

\* cls(*data): the elements of data become the positional arguments, in
\* order; a wrong number of them is a TypeError.
Construct(cls, data) ==
    IF Len(data) # Arity(cls)
    THEN Raise("TypeError")
    ELSE Value(CASE cls = "Swimming" ->
                      Swimming_init(data[1], data[2], data[3], data[4], data[5])
                 [] cls = "SportsWalking" ->
                      SportsWalking_init(data[1], data[2], data[3], data[4])
                 [] OTHER ->
                      Training_init(cls, data[1], data[2], data[3]))

\* read_package: the lookup comes first, and a missing key is the one fault
\* caught: the message is printed and the function falls off its end, which
\* returns None.  stdout holds the lines the call printed.
read_package(workout_type, data) ==
    IF workout_type \in DOMAIN trainings
    THEN LET made == Construct(trainings[workout_type], data)
         IN  [exc |-> made.exc,
              val |-> IF made.exc = "none" THEN made.val ELSE None,
              stdout |-> <<>>]
    ELSE [exc |-> "none", val |-> None,
          stdout |-> <<ERR_HEAD \o workout_type \o ERR_TAIL>>]

\* Mutant of main: no except clause, the AttributeError leaves main.
main_NoExcept(t) ==
    LET call == IF t = None
                THEN Raise("AttributeError")
                ELSE show_training_info(t)
    IN  IF call.exc # "none"
        THEN [exc |-> call.exc, info |-> None, stdout |-> <<>>]
        ELSE [exc |-> "none", info |-> call.val,
              stdout |-> <<get_message(call.val)>>]

\* Mutant of main: except Exception, every exception is swallowed.
main_ExceptAll(t) ==
    LET call == IF t = None
                THEN Raise("AttributeError")
                ELSE show_training_info(t)
    IN  IF call.exc # "none"
        THEN [exc |-> "none", info |-> None, stdout |-> <<>>]
        ELSE [exc |-> "none", info |-> call.val,
              stdout |-> <<get_message(call.val)>>]

\* main: None has no show_training_info, which is the AttributeError main
\* catches; any other exception leaves main.  info is the InfoMessage built
\* (None when none was).
main(t) ==
    LET call == IF t = None
                THEN Raise("AttributeError")
                ELSE show_training_info(t)
    IN  IF call.exc = "AttributeError"
        THEN [exc |-> "none", info |-> None, stdout |-> <<>>]
        ELSE IF call.exc # "none"
        THEN [exc |-> call.exc, info |-> None, stdout |-> <<>>]
        ELSE [exc |-> "none", info |-> call.val,
              stdout |-> <<get_message(call.val)>>]

---------------------------------------------------------------------------
(* The driver: for workout_type, data in packages                          *)

\* 'XYZ', a code that is no key of trainings
XYZ == <<88, 89, 90>>

Package(workout_type, data) == [workout_type |-> workout_type, data |-> data]

Half == Num(1, 2)

\* Sensor readings the driver is run on.  They hold the three packages of
\* the source, a zero and a negative duration, a walk fast enough for the
\* floored quotient to be positive, and swims that differ in strokes and
\* weight only.
RunPackages ==
    {Package(RUN, <<FromInt(a), d, FromInt(75)>>) :
        a \in {9000, 15000}, d \in {FromInt(0), Half, FromInt(1), FromInt(-1)}}

WalkPackages ==
    {Package(WLK, <<FromInt(a), d, FromInt(75), FromInt(180)>>) :
        a \in {9000, 15000}, d \in {FromInt(0), Half, FromInt(1)}}

SwimPackages ==
    {Package(SWM, <<FromInt(a), FromInt(d), FromInt(w), FromInt(p[1]),
                    FromInt(p[2])>>) :
        a \in {720, 1440}, d \in {0, 1}, w \in {75, 80},
        p \in {<<25, 40>>, <<50, 30>>}}

\* An unknown code, with readings and with none, and a known code with a
\* reading missing.
OddPackages ==
    {Package(XYZ, <<FromInt(720), FromInt(1), FromInt(80)>>),
     Package(XYZ, <<>>),
     Package(RUN, <<FromInt(15000), FromInt(1)>>)}

Packages == RunPackages \cup WalkPackages \cup SwimPackages \cup OddPackages

\* training before the first assignment to it.
Unbound == [cls |-> "unbound"]

Init ==
    /\ packages \in UNION {[1..k -> Packages] : k \in 0..MaxPackages}
    /\ idx = 1
    /\ pc = IF packages = <<>> THEN "done" ELSE "read_package"
    /\ training = Unbound
    /\ infos = <<>>
    /\ out = <<>>
    /\ exc = "none"

\* training = read_package(workout_type, data)
Dispatch ==
    /\ pc = "read_package"
    /\ LET got == read_package(packages[idx].workout_type, packages[idx].data)
       IN  /\ out' = out \o got.stdout
           /\ IF got.exc = "none"
              THEN /\ training' = got.val
                   /\ pc' = "main"
                   /\ exc' = exc
              ELSE /\ training' = training
                   /\ pc' = "fault"
                   /\ exc' = got.exc
    /\ UNCHANGED <<packages, idx, infos>>

\* Mutant of Report: the line is put before the lines already written.
Report_Prepend ==
    /\ pc = "main"
    /\ LET got == main(training)
       IN  /\ out' = got.stdout \o out
           /\ infos' = IF got.info = None
                       THEN infos
                       ELSE Append(infos, [training |-> training,
                                           info |-> got.info])
           /\ IF got.exc = "none"
              THEN /\ idx' = idx + 1
                   /\ pc' = IF idx = Len(packages) THEN "done" ELSE "read_package"
                   /\ exc' = exc
              ELSE /\ idx' = idx
                   /\ pc' = "fault"
                   /\ exc' = got.exc
    /\ UNCHANGED <<packages, training>>

\* main(training), and the loop's step to the next pair.  An exception that
\* leaves main leaves the loop and ends the program.
Report ==
    /\ pc = "main"
    /\ LET got == main(training)
       IN  /\ out' = out \o got.stdout
           /\ infos' = IF got.info = None
                       THEN infos
                       ELSE Append(infos, [training |-> training,
                                           info |-> got.info])
           /\ IF got.exc = "none"
              THEN /\ idx' = idx + 1
                   /\ pc' = IF idx = Len(packages) THEN "done" ELSE "read_package"
                   /\ exc' = exc
              ELSE /\ idx' = idx
                   /\ pc' = "fault"
                   /\ exc' = got.exc
    /\ UNCHANGED <<packages, training>>

Next == Dispatch \/ Report

Spec == Init /\ [][Next]_vars

---------------------------------------------------------------------------
(* Vocabulary of the properties                                            *)

Known(p) == p.workout_type \in {SWM, RUN, WLK}

\* The number of readings each code's variant takes.
Readings(p) ==
    IF p.workout_type = SWM THEN 5 ELSE IF p.workout_type = WLK THEN 4 ELSE 3

\* A known-code pair main can report: a reading per attribute and a
\* duration (and, for a walk, a height) other than zero.
ValidData(p) ==
    /\ Len(p.data) = Readings(p)
    /\ p.data[2].n # 0
    /\ p.workout_type = WLK => p.data[4].n # 0

ZeroDuration(p) ==
    /\ Known(p)
    /\ Len(p.data) = Readings(p)
    /\ p.data[2].n = 0

IsPrefix(lit, s) == Len(lit) <= Len(s) /\ SubSeq(s, 1, Len(lit)) = lit

IsDiagnostic(line) == IsPrefix(ERR_HEAD, line)
IsReport(line) == ~IsDiagnostic(line)

\* The report lines written so far, in the order written.
ReportLines == SelectSeq(out, IsReport)

Less(a, b) == a.n * b.d < b.n * a.d
NonNegative(a) == a.n >= 0

---------------------------------------------------------------------------
(* C1: for a workout code outside {SWM, RUN, WLK}, whatever the data,      *)
(* read_package raises nothing, prints exactly one diagnostic line and     *)
(* returns None; main called on that None prints nothing, builds no        *)
(* report and returns normally, and the loop goes on to the next pair (or  *)
(* ends, after the last one).                                              *)
C1_UnknownCodeSkipped ==
    [][ /\ (pc = "read_package" /\ ~Known(packages[idx])) =>
              /\ pc' = "main"
              /\ training' = None
              /\ exc' = "none"
              /\ out' = Append(out, ERR_HEAD \o packages[idx].workout_type
                                             \o ERR_TAIL)
        /\ (pc = "main" /\ training = None) =>
              /\ out' = out
              /\ infos' = infos
              /\ exc' = "none"
              /\ idx' = idx + 1
              /\ pc' = IF idx < Len(packages) THEN "read_package" ELSE "done"
      ]_vars

\* An unknown code came first, its diagnostic is the one line written, and
\* the loop is at the second pair.
C1_Witness ==
    /\ Len(packages) = 2
    /\ ~Known(packages[1])
    /\ idx = 2
    /\ pc = "read_package"
    /\ exc = "none"
    /\ Len(out) = 1
    /\ IsDiagnostic(out[1])

---------------------------------------------------------------------------
(* C2: when every known-code pair of the list has valid data, the report   *)
(* lines written are exactly one per known-code pair, in the order of the  *)
(* pairs, and a pair is dispatched only when every pair before it has      *)
(* been dealt with in full: at each point the lines written are those of   *)
(* the pairs before the current one (plus, inside main, nothing yet of     *)
(* the current one), no exception ends the loop, and at the end every      *)
(* pair has been dealt with.                                               *)
AllValid == \A i \in 1..Len(packages) : Known(packages[i]) => ValidData(packages[i])

\* The report line of a valid known-code pair.
ReportOf(p) ==
    get_message(show_training_info(Construct(trainings[p.workout_type],
                                             p.data).val).val)

RECURSIVE ReportsOfFirst(_)
ReportsOfFirst(k) ==
    IF k = 0 THEN <<>>
    ELSE ReportsOfFirst(k - 1)
         \o (IF Known(packages[k]) THEN <<ReportOf(packages[k])>> ELSE <<>>)

C2_ReportsInOrder ==
    AllValid =>
        /\ pc # "fault"
        /\ ReportLines = ReportsOfFirst(idx - 1)
        /\ pc = "done" => idx - 1 = Len(packages)

\* Two known-code pairs with different reports, both reported.
C2_Witness ==
    /\ AllValid
    /\ pc = "done"
    /\ Len(packages) = 2
    /\ Known(packages[1])
    /\ Known(packages[2])
    /\ Len(ReportLines) = 2
    /\ ReportLines[1] # ReportLines[2]

---------------------------------------------------------------------------
(* C3: for a code among SWM, RUN, WLK and data of the matching length (5,  *)
(* 3, 4), read_package returns an instance of Swimming, Running,           *)
(* SportsWalking respectively, never of Training itself, whose attributes  *)
(* are the data elements in positional order; and the training_type of a   *)
(* report built from an instance is the name of the instance's class.      *)
ExpectedClass(p) ==
    IF p.workout_type = SWM THEN "Swimming"
    ELSE IF p.workout_type = RUN THEN "Running" ELSE "SportsWalking"

C3_DispatchByCode ==
    /\ (pc = "main" /\ Known(packages[idx])) =>
          LET d == packages[idx].data
          IN  /\ Len(d) = Readings(packages[idx])
              /\ training.cls = ExpectedClass(packages[idx])
              /\ training.cls # "Training"
              /\ training.action = d[1]
              /\ training.duration = d[2]
              /\ training.weight = d[3]
              /\ training.cls = "SportsWalking" => training.height = d[4]
              /\ training.cls = "Swimming" =>
                    /\ training.length_pool = d[4]
                    /\ training.count_pool = d[5]
    /\ (pc = "fault" /\ Known(packages[idx])
            /\ Len(packages[idx].data) = Readings(packages[idx])) =>
          exc # "TypeError"
    /\ \A k \in 1..Len(infos) :
          /\ infos[k].training.cls \in {"Swimming", "Running", "SportsWalking"}
          /\ infos[k].info.training_type = ClassName(infos[k].training.cls)

\* A swim and a walk, both dispatched and reported.
C3_Witness ==
    /\ Len(infos) = 2
    /\ infos[1].training.cls = "Swimming"
    /\ infos[2].training.cls = "SportsWalking"
    /\ infos[2].training.height = FromInt(180)

---------------------------------------------------------------------------
(* C4 (as claimed): for every variant and every unit count, the distance   *)
(* of a report equals unit_count * step_length_km, the step length being   *)
(* 0.65 km for Running and SportsWalking and 1.38 km for Swimming.         *)
StepLength(cls) == IF cls = "Swimming" THEN Num(138, 100) ELSE Num(65, 100)

C4_Original ==
    \A k \in 1..Len(infos) :
        infos[k].info.distance =
            Mul(infos[k].training.action, StepLength(infos[k].training.cls))

(* C4 (amended): the step lengths 0.65 and 1.38 are metres, and the        *)
(* distance in km is unit_count * step_length / 1000.                      *)
C4_DistanceInKm ==
    \A k \in 1..Len(infos) :
        Mul(infos[k].info.distance, FromInt(1000)) =
            Mul(infos[k].training.action, StepLength(infos[k].training.cls))

\* The swim and the run of the source: 0.9936 km and 9.75 km.
C4_Witness ==
    /\ Len(infos) = 2
    /\ infos[1].training.cls = "Swimming"
    /\ infos[1].training.action = FromInt(720)
    /\ infos[1].info.distance = Num(9936, 10000)
    /\ infos[2].training.cls = "Running"
    /\ infos[2].training.action = FromInt(15000)
    /\ infos[2].info.distance = Num(975, 100)

---------------------------------------------------------------------------
(* C5: two Swimming workouts that agree on length_pool, count_pool and     *)
(* duration (duration > 0) have the same mean speed, whatever their        *)
(* stroke counts and weights, and that speed is length_pool * count_pool   *)
(* / 1000 / duration; a Running and a SportsWalking workout with the same  *)
(* action and duration have the same distance and the same mean speed,     *)
(* which is distance / duration.                                           *)
C5_SpeedDependsOn ==
    \A i, j \in 1..Len(infos) :
        LET a == infos[i].training
            b == infos[j].training
        IN  /\ (/\ a.cls = "Swimming" /\ b.cls = "Swimming"
                /\ a.length_pool = b.length_pool
                /\ a.count_pool = b.count_pool
                /\ a.duration = b.duration
                /\ Less(FromInt(0), a.duration)) =>
                  /\ infos[i].info.speed = infos[j].info.speed
                  /\ Mul(Mul(infos[i].info.speed, a.duration), FromInt(1000))
                        = Mul(a.length_pool, a.count_pool)
            /\ (/\ a.cls = "Running" /\ b.cls = "SportsWalking"
                /\ a.action = b.action
                /\ a.duration = b.duration) =>
                  /\ infos[i].info.distance = infos[j].info.distance
                  /\ infos[i].info.speed = infos[j].info.speed
                  /\ Mul(infos[i].info.speed, a.duration)
                        = infos[i].info.distance

\* Two swims in the same pool for the same time, with different stroke
\* counts and weights, both reported.
C5_Witness ==
    /\ Len(infos) = 2
    /\ infos[1].training.cls = "Swimming"
    /\ infos[2].training.cls = "Swimming"
    /\ infos[1].training.length_pool = infos[2].training.length_pool
    /\ infos[1].training.count_pool = infos[2].training.count_pool
    /\ infos[1].training.duration = infos[2].training.duration
    /\ infos[1].training.action # infos[2].training.action
    /\ infos[1].training.weight # infos[2].training.weight

---------------------------------------------------------------------------
(* C6: for every SportsWalking workout with duration > 0 and height > 0,   *)
(* calories = (0.035 * weight + q * 0.029 * weight) * duration * 60 where  *)
(* q is the floor of mean_speed^2 / height: the whole number with          *)
(* q * height <= mean_speed^2 < (q + 1) * height.  When mean_speed^2 <     *)
(* height the calories are 0.035 * weight * duration * 60, and WLK         *)
(* [9000, 1, 75, 180] gives 157.5.                                         *)
WalkCalories(t, q) ==
    Mul(Mul(Add(Mul(Num(35, 1000), t.weight),
                Mul(Mul(q, Num(29, 1000)), t.weight)),
            t.duration),
        FromInt(60))

C6_WalkingCaloriesFloor ==
    \A k \in 1..Len(infos) :
        LET t == infos[k].training
            i == infos[k].info
            sq == Mul(i.speed, i.speed)
        IN  (/\ t.cls = "SportsWalking"
             /\ Less(FromInt(0), t.duration)
             /\ Less(FromInt(0), t.height)) =>
                /\ LET q == (sq.n * t.height.d) \div (sq.d * t.height.n)
                   IN  /\ ~Less(sq, Mul(FromInt(q), t.height))
                       /\ Less(sq, Mul(FromInt(q + 1), t.height))
                       /\ i.calories = WalkCalories(t, FromInt(q))
                /\ Less(sq, t.height) =>
                      i.calories = Mul(Mul(Mul(Num(35, 1000), t.weight),
                                           t.duration), FromInt(60))
                /\ (/\ t.action = FromInt(9000) /\ t.duration = FromInt(1)
                    /\ t.weight = FromInt(75) /\ t.height = FromInt(180)) =>
                      i.calories = Num(1575, 10)

\* The walk of the source (quotient floored to 0) and a faster walk whose
\* quotient, 380.25 / 180, is floored to 2.
C6_Witness ==
    /\ Len(infos) = 2
    /\ infos[1].training.cls = "SportsWalking"
    /\ infos[1].training.action = FromInt(9000)
    /\ infos[1].training.duration = FromInt(1)
    /\ infos[1].info.calories = Num(1575, 10)
    /\ infos[2].training.cls = "SportsWalking"
    /\ infos[2].info.speed = Num(195, 10)
    /\ infos[2].info.calories = WalkCalories(infos[2].training, FromInt(2))

---------------------------------------------------------------------------
(* C7: for every Running workout with duration > 0, calories =             *)
(* (18 * mean_speed - 20) * weight / 1000 * duration * 60, mean_speed      *)
(* being the base distance / duration.                                     *)
RunCalories(t, speed) ==
    Mul(Mul(TrueDiv(Mul(Sub(Mul(FromInt(18), speed), FromInt(20)), t.weight),
                    FromInt(1000)),
            t.duration),
        FromInt(60))

IsSourceRun(t) ==
    /\ t.cls = "Running"
    /\ t.action = FromInt(15000)
    /\ t.duration = FromInt(1)
    /\ t.weight = FromInt(75)

RunFormula(k) ==
    LET t == infos[k].training
        i == infos[k].info
    IN  (t.cls = "Running" /\ Less(FromInt(0), t.duration)) =>
            /\ Mul(i.speed, t.duration) = i.distance
            /\ Mul(i.distance, FromInt(1000)) = Mul(t.action, Num(65, 100))
            /\ i.calories = RunCalories(t, i.speed)

(* C7 (as claimed): ... and RUN [15000, 1, 75] gives distance 9.75 km,     *)
(* mean speed 9.75 km/h and 701.25 calories.                               *)
C7_Original ==
    \A k \in 1..Len(infos) :
        /\ RunFormula(k)
        /\ IsSourceRun(infos[k].training) =>
              /\ infos[k].info.distance = Num(975, 100)
              /\ infos[k].info.speed = Num(975, 100)
              /\ infos[k].info.calories = Num(70125, 100)

(* C7 (amended): ... and RUN [15000, 1, 75] gives distance 9.75 km, mean   *)
(* speed 9.75 km/h and 699.75 calories, which is what the formula gives.   *)
C7_RunningCalories ==
    \A k \in 1..Len(infos) :
        /\ RunFormula(k)
        /\ IsSourceRun(infos[k].training) =>
              /\ infos[k].info.distance = Num(975, 100)
              /\ infos[k].info.speed = Num(975, 100)
              /\ infos[k].info.calories = Num(69975, 100)

\* The run of the source and a half-hour run, both reported.
C7_Witness ==
    /\ Len(infos) = 2
    /\ IsSourceRun(infos[1].training)
    /\ infos[2].training.cls = "Running"
    /\ infos[2].training.duration = Half

---------------------------------------------------------------------------
(* C8: for every variant, when every reading of a workout is non-negative, *)
(* the distance and the mean speed of its report are non-negative.         *)
RECURSIVE AllNonNegative(_)
AllNonNegative(d) ==
    d = <<>> \/ (NonNegative(Head(d)) /\ AllNonNegative(Tail(d)))

ReadingsOf(t) ==
    <<t.action, t.duration, t.weight>>
    \o (IF t.cls = "SportsWalking" THEN <<t.height>> ELSE <<>>)
    \o (IF t.cls = "Swimming" THEN <<t.length_pool, t.count_pool>> ELSE <<>>)

C8_NonNegative ==
    \A k \in 1..Len(infos) :
        AllNonNegative(ReadingsOf(infos[k].training)) =>
            /\ NonNegative(infos[k].info.distance)
            /\ NonNegative(infos[k].info.speed)

\* A swim with non-negative readings, and a run with a negative duration
\* (whose speed is negative), both reported.
C8_Witness ==
    /\ Len(infos) = 2
    /\ infos[1].training.cls = "Swimming"
    /\ AllNonNegative(ReadingsOf(infos[1].training))
    /\ Less(FromInt(0), infos[1].info.speed)
    /\ infos[2].training.cls = "Running"
    /\ ~AllNonNegative(ReadingsOf(infos[2].training))
    /\ ~NonNegative(infos[2].info.speed)

---------------------------------------------------------------------------
(* Reading a report line back                                              *)

\* The index after the literal lit, when lit stands at index i of s; 0 when
\* it does not (or i is 0 already).
Expect(s, i, lit) ==
    IF i >= 1 /\ i + Len(lit) - 1 <= Len(s) /\ SubSeq(s, i, i + Len(lit) - 1) = lit
    THEN i + Len(lit)
    ELSE 0

\* The index after the run of decimal digits that starts at index i of s.
RECURSIVE DigitsEnd(_, _)
DigitsEnd(s, i) ==
    IF i >= 1 /\ i <= Len(s) /\ s[i] \in 48..57 THEN DigitsEnd(s, i + 1) ELSE i

\* The number a sequence of decimal digits writes.
RECURSIVE DecimalValue(_)
DecimalValue(ds) ==
    IF ds = <<>> THEN 0
    ELSE 10 * DecimalValue(SubSeq(ds, 1, Len(ds) - 1)) + (ds[Len(ds)] - 48)

\* The numeral at index i of s, read as: an optional '-', one or more
\* digits, '.', and digits again.  ok says that the digits after the point
\* are exactly three; thousandths is the magnitude read, in thousandths.
ReadFixed3(s, i) ==
    LET neg == i >= 1 /\ i <= Len(s) /\ s[i] = 45
        a == IF neg THEN i + 1 ELSE i
        b == DigitsEnd(s, a)
        c == DigitsEnd(s, b + 1)
        ok == i >= 1 /\ b > a /\ b <= Len(s) /\ s[b] = 46 /\ c = b + 4
    IN  [ok |-> ok, next |-> IF ok THEN c ELSE 0, neg |-> neg,
         thousandths |-> IF ok
                         THEN 1000 * DecimalValue(SubSeq(s, a, b - 1))
                              + DecimalValue(SubSeq(s, b + 1, c - 1))
                         ELSE 0]

\* The numeral read is x to three decimal places: x's sign, and a
\* magnitude within half a thousandth of x's.
Writes(f, x) ==
    /\ f.ok
    /\ f.neg = (x.n < 0)
    /\ 2 * Abs(Abs(x.n) * 1000 - f.thousandths * x.d) <= x.d

\* line is the six literals of labels with, between them and in this
\* order, the training type, the duration, the distance, the speed and the
\* calories of info, each number to exactly three decimal places, and
\* nothing else.
FollowsTemplate(line, labels, info) ==
    LET i1 == Expect(line, 1, labels[1])
        i2 == Expect(line, i1, info.training_type)
        i3 == Expect(line, i2, labels[2])
        f1 == ReadFixed3(line, i3)
        i4 == Expect(line, f1.next, labels[3])
        f2 == ReadFixed3(line, i4)
        i5 == Expect(line, f2.next, labels[4])
        f3 == ReadFixed3(line, i5)
        i6 == Expect(line, f3.next, labels[5])
        f4 == ReadFixed3(line, i6)
        i7 == Expect(line, f4.next, labels[6])
    IN  /\ Writes(f1, info.duration)
        /\ Writes(f2, info.distance)
        /\ Writes(f3, info.speed)
        /\ Writes(f4, info.calories)
        /\ i7 = Len(line) + 1

\* "Training type: ", "; Duration: ", " h.; Distance: ", " km; Avg. speed: ",
\* " km/h; Calories burned: ", "."
EnglishLabels ==
    << <<84, 114, 97, 105, 110, 105, 110, 103, 32, 116, 121, 112, 101, 58, 32>>,
       <<59, 32, 68, 117, 114, 97, 116, 105, 111, 110, 58, 32>>,
       <<32, 104, 46, 59, 32, 68, 105, 115, 116, 97, 110, 99, 101, 58, 32>>,
       <<32, 107, 109, 59, 32, 65, 118, 103, 46, 32, 115, 112, 101, 101, 100,
         58, 32>>,
       <<32, 107, 109, 47, 104, 59, 32, 67, 97, 108, 111, 114, 105, 101, 115,
         32, 98, 117, 114, 110, 101, 100, 58, 32>>,
       <<46>> >>

\* 'Тип тренировки: ', '; Длительность: ', ' ч.; Дистанция: ',
\* ' км; Ср. скорость: ', ' км/ч; Потрачено ккал: ', '.'
RussianLabels ==
    <<MSG_TYPE, MSG_DURATION, MSG_DISTANCE, MSG_SPEED, MSG_CALORIES, MSG_END>>

---------------------------------------------------------------------------
(* C9 (as claimed): every report line is "Training type: {variant_name};   *)
(* Duration: {duration:.3f} h.; Distance: {distance:.3f} km; Avg. speed:   *)
(* {speed:.3f} km/h; Calories burned: {calories:.3f}.", the fields in that *)
(* order and each of the four numbers with exactly three decimal places.   *)
C9_Original ==
    /\ Len(ReportLines) = Len(infos)
    /\ \A k \in 1..Len(infos) :
          FollowsTemplate(ReportLines[k], EnglishLabels, infos[k].info)

(* C9 (amended): the fields, their order and the three decimal places are  *)
(* as claimed, and the wording between them is the Russian of the source:  *)
(* 'Тип тренировки: {training_type}; Длительность: {duration:.3f} ч.;      *)
(* Дистанция: {distance:.3f} км; Ср. скорость: {speed:.3f} км/ч;           *)
(* Потрачено ккал: {calories:.3f}.'                                        *)
C9_ReportTemplate ==
    /\ Len(ReportLines) = Len(infos)
    /\ \A k \in 1..Len(infos) :
          FollowsTemplate(ReportLines[k], RussianLabels, infos[k].info)

\* Two reports written, one of them with a negative number in it and one
\* whose distance, 0.9936, has to be rounded.
C9_Witness ==
    /\ Len(infos) = 2
    /\ Len(ReportLines) = 2
    /\ infos[1].info.speed.n < 0
    /\ infos[2].info.distance = Num(9936, 10000)

---------------------------------------------------------------------------
(* C10 (as claimed): a known-code pair whose duration is 0 is accepted by  *)
(* read_package (an instance is returned); main then meets a division      *)
(* fault in the mean speed, prints no report line for the workout, and     *)
(* the pair is skipped: the batch continues with the remaining pairs.      *)
C10_Original ==
    [][ /\ (pc = "read_package" /\ ZeroDuration(packages[idx])) =>
              /\ pc' = "main"
              /\ training' # None
              /\ training'.duration = FromInt(0)
        /\ (pc = "main" /\ ZeroDuration(packages[idx])) =>
              /\ out' = out
              /\ infos' = infos
              /\ idx' = idx + 1
              /\ pc' = IF idx < Len(packages) THEN "read_package" ELSE "done"
      ]_vars

(* C10 (amended): ... prints no report line for the workout, and the       *)
(* ZeroDivisionError, which main does not catch, leaves main and the       *)
(* loop: the program ends there and the remaining pairs are never          *)
(* dispatched.                                                             *)
C10_ZeroDurationEndsBatch ==
    [][ /\ (pc = "read_package" /\ ZeroDuration(packages[idx])) =>
              /\ pc' = "main"
              /\ training' # None
              /\ training'.duration = FromInt(0)
        /\ (pc = "main" /\ ZeroDuration(packages[idx])) =>
              /\ out' = out
              /\ infos' = infos
              /\ idx' = idx
              /\ pc' = "fault"
              /\ exc' = "ZeroDivisionError"
        /\ pc # "fault"
      ]_vars

\* The first of two pairs had a zero duration: the program has ended with
\* the division fault, nothing written, the second pair never dispatched.
C10_Witness ==
    /\ Len(packages) = 2
    /\ ZeroDuration(packages[1])
    /\ idx = 1
    /\ pc = "fault"
    /\ exc = "ZeroDivisionError"
    /\ out = <<>>

====
